---- MODULE Spec2Model ----
(***************************************************************************)
(* Model of the `.value` auto-insertion plugin: the edit classifier        *)
(* isCharacterTyping, the identifier locator findPositionIdentifier, the   *)
(* exclusion classifier isBlacklistNode and the provideAutoInsertionEdit   *)
(* handler that composes them.                                             *)
(***************************************************************************)
EXTENDS Integers, Sequences, FiniteSets, TLC

VARIABLES
    doc,        \* TextDocument content, a sequence of characters
    change,     \* insertContext.lastChange: [start |-> Position, text |-> Seq(char)]
    typing,     \* result of isCharacterTyping, or "unset"
    tree,       \* the syntax tree: a sequence of nodes in preorder, node 1 the root
    pos,        \* the offset handed to the tree functions
    allowDot,   \* the allowAccessDotValue argument
    found,      \* result of findPositionIdentifier (a node id, None, or "unset")
    excluded,   \* result of isBlacklistNode, or "unset"
    phase,      \* position of the driver of the pure-function specifications
    pc,         \* position of the provideAutoInsertionEdit invocation
    env,        \* what the host provides: language id, configuration, program,
                \* source file, cancellation token, the checker's type fact
    position,   \* the position argument
    cancelled,  \* token.isCancellationRequested()
    version,    \* version of the program the language service currently holds
    result,     \* the value the invocation resolves to, or "pending"
    trace,      \* the steps the invocation has executed, in order
    seen        \* what each step read: program versions, the token's state

pureVars == <<doc, change, typing, tree, pos, allowDot, found, excluded, phase>>
engineVars == <<pc, env, position, cancelled, version, result, trace, seen>>
vars == <<pureVars, engineVars>>

(***************************************************************************)
(* Bounds of the model.                                                    *)
(***************************************************************************)
MaxDocLen == 3
MaxTextLen == 3
MaxNodes == 4
MaxOff == 3
MaxExcludeNodes == 3
MaxExcludeOff == 2
MaxCallNodes == 4
MaxCallOff == 5
MaxEdits == 1

(***************************************************************************)
(* Characters.  /\w/ is the class [A-Za-z0-9_].                            *)
(***************************************************************************)
WordChars ==
    { "a","b","c","d","e","f","g","h","i","j","k","l","m","n","o","p","q",
      "r","s","t","u","v","w","x","y","z",
      "A","B","C","D","E","F","G","H","I","J","K","L","M","N","O","P","Q",
      "R","S","T","U","V","W","X","Y","Z",
      "0","1","2","3","4","5","6","7","8","9","_" }

UpperChars ==
    { "A","B","C","D","E","F","G","H","I","J","K","L","M","N","O","P","Q",
      "R","S","T","U","V","W","X","Y","Z" }

\* the characters documents and edits are drawn from
Alphabet == { "n", "7", "_", ".", "\n" }

\* /\w/.test(s) for a string of at most one character
TestWord(s) == \E i \in 1..Len(s) : s[i] \in WordChars

SeqsUpTo(S, n) == UNION { [1..k -> S] : k \in 0..n }

(***************************************************************************)
(* TextDocument: line offsets, offsetAt, positionAt, getText.              *)
(* Offsets and positions are zero-based as in the code; doc[i+1] is the    *)
(* character at offset i.                                                  *)
(***************************************************************************)
\* offsets at which a line starts
LineOffsets(d) ==
    LET starts == {0} \cup { i \in 1..Len(d) : d[i] = "\n" }
        Nth[k \in 1..Cardinality(starts)] ==
            CHOOSE o \in starts : Cardinality({ x \in starts : x < o }) = k - 1
    IN  [k \in 1..Cardinality(starts) |-> Nth[k]]

Min(a, b) == IF a < b THEN a ELSE b
Max(a, b) == IF a > b THEN a ELSE b

offsetAt(d, p) ==
    LET lo == LineOffsets(d)
    IN  IF p.line >= Len(lo) THEN Len(d)
        ELSE IF p.line < 0 THEN 0
        ELSE LET lineOffset == lo[p.line + 1]
                 nextLineOffset == IF p.line + 1 < Len(lo) THEN lo[p.line + 2] ELSE Len(d)
             IN  Max(Min(lineOffset + p.character, nextLineOffset), lineOffset)

positionAt(d, o) ==
    LET lo == LineOffsets(d)
        off == Max(Min(o, Len(d)), 0)
        line == CHOOSE k \in 1..Len(lo) :
                    /\ lo[k] <= off
                    /\ \A j \in 1..Len(lo) : lo[j] <= off => j <= k
    IN  [line |-> line - 1, character |-> off - lo[line]]

\* document.getText(Range.create(p, q)) = content.substring(start, end)
getText(d, p, q) ==
    LET a == offsetAt(d, p)
        b == offsetAt(d, q)
        start == Min(a, b)
        end == Max(a, b)
    IN  SubSeq(d, start + 1, end)

(***************************************************************************)
(* isCharacterTyping                                                       *)
(***************************************************************************)
\* variant: the multi-line test left out
isCharacterTypingAnyLine(d, lastChange) ==
    LET text == lastChange.text
        rangeStart == lastChange.start
        caret == [line |-> rangeStart.line,
                  character |-> rangeStart.character + Len(text)]
        nextCharacter == getText(d, caret, positionAt(d, offsetAt(d, caret) + 1))
    IN  IF Len(text) = 0 THEN FALSE
        ELSE TestWord(<<text[Len(text)]>>) /\ ~TestWord(nextCharacter)

isCharacterTyping(d, lastChange) ==
    LET text == lastChange.text
        rangeStart == lastChange.start
        caret == [line |-> rangeStart.line,
                  character |-> rangeStart.character + Len(text)]
        nextCharacter == getText(d, caret, positionAt(d, offsetAt(d, caret) + 1))
    IN  IF Len(text) = 0 THEN FALSE
        ELSE IF \E i \in 1..Len(text) : text[i] = "\n" THEN FALSE
        ELSE TestWord(<<text[Len(text)]>>) /\ ~TestWord(nextCharacter)

(***************************************************************************)
(* Syntax trees.  A tree is a sequence of nodes in preorder; a node is     *)
(* [parent, kind, pos, start, end, text] with pos the full start           *)
(* (getFullStart), start the token start (getStart) and end the end        *)
(* offset.  forEachChild visits the children in source order.              *)
(***************************************************************************)
None == 0

Kinds ==
    { "Identifier", "VariableDeclaration", "FunctionDeclaration", "Parameter",
      "PropertyAssignment", "ShorthandPropertyAssignment", "ImportDeclaration",
      "LiteralType", "TypeReference", "PropertyAccessExpression",
      "CallExpression", "ArrayLiteralExpression", "Other" }

\* node.forEachChild: the children of n, in order
Children(t, n) == SelectSeq([i \in 1..Len(t) |-> i], LAMBDA i : t[i].parent = n)

isIdentifier(t, n) == t[n].kind = "Identifier"

\* node.name of a declaration / property access, node.expression, node.arguments,
\* arg.elements
nameOf(t, n) ==
    LET kids == Children(t, n)
    IN  CASE t[n].kind = "PropertyAccessExpression" -> kids[2]
          [] t[n].kind = "FunctionDeclaration" ->
                IF Len(kids) > 0 /\ isIdentifier(t, kids[1]) THEN kids[1] ELSE None
          [] OTHER -> kids[1]

expressionOf(t, n) == Children(t, n)[1]

argumentsOf(t, n) == Tail(Children(t, n))

elementsOf(t, n) == Children(t, n)

(***************************************************************************)
(* findPositionIdentifier                                                  *)
(***************************************************************************)
RECURSIVE findPositionIdentifier(_, _, _)
RECURSIVE findInChildren(_, _, _, _)

\* variant: the isIdentifier test left out
RECURSIVE findInChildrenAnyKind(_, _, _, _)
findInChildrenAnyKind(t, kids, i, offset) ==
    IF i > Len(kids) THEN None
    ELSE LET child == kids[i]
             r ==
                 IF t[child].end = offset THEN child
                 ELSE IF t[child].end >= offset /\ t[child].start < offset
                      THEN findPositionIdentifier(t, child, offset)
                      ELSE None
         IN  IF r # None THEN r
             ELSE findInChildrenAnyKind(t, kids, i + 1, offset)

\* the forEachChild callback applied to kids[i..], result still unset
findInChildren(t, kids, i, offset) ==
    IF i > Len(kids) THEN None
    ELSE LET child == kids[i]
             r ==
                 IF t[child].end = offset /\ isIdentifier(t, child) THEN child
                 ELSE IF t[child].end >= offset /\ t[child].start < offset
                      THEN findPositionIdentifier(t, child, offset)
                      ELSE None
         IN  IF r # None THEN r
             ELSE findInChildren(t, kids, i + 1, offset)

findPositionIdentifier(t, node, offset) ==
    findInChildren(t, Children(t, node), 1, offset)

(***************************************************************************)
(* isBlacklistNode                                                         *)
(***************************************************************************)
\* hyphenate(fnName): /\B([A-Z])/g -> '-$1', then toLowerCase.  An upper-case
\* letter is preceded by \B exactly when the character before it is a word
\* character.
UpperSeq == <<"A","B","C","D","E","F","G","H","I","J","K","L","M","N","O","P","Q",
              "R","S","T","U","V","W","X","Y","Z">>
LowerSeq == <<"a","b","c","d","e","f","g","h","i","j","k","l","m","n","o","p","q",
              "r","s","t","u","v","w","x","y","z">>

toLowerCase(c) ==
    IF c \in UpperChars
    THEN LowerSeq[CHOOSE i \in 1..Len(UpperSeq) : UpperSeq[i] = c]
    ELSE c

RECURSIVE hyphenateFrom(_, _)
hyphenateFrom(name, i) ==
    IF i > Len(name) THEN <<>>
    ELSE (IF i > 1 /\ name[i] \in UpperChars /\ name[i - 1] \in WordChars
          THEN <<"-", toLowerCase(name[i])>>
          ELSE <<toLowerCase(name[i])>>) \o hyphenateFrom(name, i + 1)

hyphenate(name) == hyphenateFrom(name, 1)

startsWith(s, prefix) ==
    Len(s) >= Len(prefix) /\ SubSeq(s, 1, Len(prefix)) = prefix

isWatchOrUseFunction(fnName) ==
    \/ fnName = <<"w","a","t","c","h">>
    \/ fnName = <<"u","n","r","e","f">>
    \/ fnName = <<"t","r","i","g","g","e","r","R","e","f">>
    \/ fnName = <<"i","s","R","e","f">>
    \/ startsWith(hyphenate(fnName), <<"u","s","e","-">>)

within(t, n, p) == p >= t[n].pos /\ p <= t[n].end

RECURSIVE elementLoop(_, _, _, _)
elementLoop(t, els, i, p) ==
    IF i > Len(els) THEN "none"
    ELSE IF within(t, els[i], p)
         THEN (IF isIdentifier(t, els[i]) THEN "true" ELSE "false")
         ELSE elementLoop(t, els, i + 1, p)

RECURSIVE argumentLoop(_, _, _, _)
argumentLoop(t, args, i, p) ==
    IF i > Len(args) THEN FALSE          \* falls off the loop: undefined
    ELSE IF within(t, args[i], p)
         THEN IF isIdentifier(t, args[i]) THEN TRUE
              ELSE IF t[args[i]].kind = "ArrayLiteralExpression"
                   THEN elementLoop(t, elementsOf(t, args[i]), 1, p) = "true"
                   ELSE FALSE
         ELSE argumentLoop(t, args, i + 1, p)

\* variant: any argument containing the position counts
isTopLevelArgAnyShape(t, node, p) ==
    \E i \in 1..Len(argumentsOf(t, node)) : within(t, argumentsOf(t, node)[i], p)

isTopLevelArgOrArrayTopLevelItemItem(t, node, p) ==
    argumentLoop(t, argumentsOf(t, node), 1, p)

RECURSIVE isBlacklistNode(_, _, _, _)
RECURSIVE blacklistChildren(_, _, _, _, _)

\* variant: the span test left out
RECURSIVE blacklistChildrenAnySpan(_, _, _, _, _)
blacklistChildrenAnySpan(t, kids, i, p, allowAccessDotValue) ==
    IF i > Len(kids) THEN FALSE
    ELSE IF isBlacklistNode(t, kids[i], p, allowAccessDotValue)
         THEN TRUE
         ELSE blacklistChildrenAnySpan(t, kids, i + 1, p, allowAccessDotValue)

\* the forEachChild callback applied to kids[i..], _isBlacklistNode still false
blacklistChildren(t, kids, i, p, allowAccessDotValue) ==
    IF i > Len(kids) THEN FALSE
    ELSE IF within(t, kids[i], p) /\ isBlacklistNode(t, kids[i], p, allowAccessDotValue)
         THEN TRUE
         ELSE blacklistChildren(t, kids, i + 1, p, allowAccessDotValue)

\* variant: the declaration's span instead of its name's
inDeclaration(t, node, p) ==
    nameOf(t, node) # None /\ p >= t[node].pos /\ p <= t[node].end

\* pos >= node.name.getFullStart() && pos <= node.name.getEnd()
inName(t, node, p) ==
    nameOf(t, node) # None /\ p >= t[nameOf(t, node)].pos /\ p <= t[nameOf(t, node)].end

isBlacklistNode(t, node, p, allowAccessDotValue) ==
    LET k == t[node].kind
    IN  IF k = "VariableDeclaration" /\ inName(t, node, p) THEN TRUE
        ELSE IF k = "FunctionDeclaration" /\ inName(t, node, p) THEN TRUE
        ELSE IF k = "Parameter" /\ inName(t, node, p) THEN TRUE
        ELSE IF k = "PropertyAssignment" /\ inName(t, node, p) THEN TRUE
        ELSE IF k = "ShorthandPropertyAssignment" THEN TRUE
        ELSE IF k = "ImportDeclaration" THEN TRUE
        ELSE IF k = "LiteralType" THEN TRUE
        ELSE IF k = "TypeReference" THEN TRUE
        ELSE IF /\ ~allowAccessDotValue
                /\ k = "PropertyAccessExpression"
                /\ t[expressionOf(t, node)].end = p
                /\ t[nameOf(t, node)].text = <<"v","a","l","u","e">>
             THEN TRUE
        ELSE IF /\ k = "CallExpression"
                /\ isIdentifier(t, expressionOf(t, node))
                /\ isWatchOrUseFunction(t[expressionOf(t, node)].text)
                /\ isTopLevelArgOrArrayTopLevelItemItem(t, node, p)
             THEN TRUE
        ELSE blacklistChildren(t, Children(t, node), 1, p, allowAccessDotValue)

(***************************************************************************)
(* The trees the functions are applied to.  The syntax service hands out   *)
(* concrete syntax trees: a node lies inside its parent, siblings are      *)
(* ordered and do not overlap (they may touch), a node with tokens has     *)
(* pos <= start < end, and a missing node (error recovery) has             *)
(* pos = start = end.                                                      *)
(***************************************************************************)
SpanOK(fs, s, e) == fs <= s /\ (s < e \/ (fs = s /\ s = e))

RECURSIVE Ancestors(_, _)
Ancestors(t, n) == IF n = None THEN {} ELSE {n} \cup Ancestors(t, t[n].parent)

\* in a preorder listing the next node hangs off the path to the last node
RightmostPath(t) == Ancestors(t, Len(t))

LastChildEnd(t, p) ==
    LET kids == Children(t, p)
    IN  IF Len(kids) = 0 THEN t[p].pos ELSE t[kids[Len(kids)]].end

\* the children of a call, an array literal and a property access are separated
\* by a token: a parenthesis, a comma, a dot
SeparatedKinds == {"CallExpression", "ArrayLiteralExpression", "PropertyAccessExpression"}

Separator(t, p) ==
    IF t[p].kind \in SeparatedKinds /\ Len(Children(t, p)) > 0 THEN 1 ELSE 0

Fits(t, p, fs, s, e) ==
    /\ SpanOK(fs, s, e)
    /\ fs >= LastChildEnd(t, p) + Separator(t, p)
    /\ e <= t[p].end
    /\ s >= t[p].start

\* isBlacklistNode answers for a node of these kinds without looking below it, so
\* the trees leave out what is below them
AlwaysExcludedKinds ==
    {"ShorthandPropertyAssignment", "ImportDeclaration", "LiteralType", "TypeReference"}

\* what the grammar allows below a node of kind t[p].kind as its next child
KindFits(t, p, k) ==
    LET n == Len(Children(t, p))
    IN  CASE t[p].kind = "Identifier" -> FALSE
          [] t[p].kind = "PropertyAccessExpression" ->
                n < 2 /\ (n = 1 => k = "Identifier")
          [] t[p].kind \in AlwaysExcludedKinds -> FALSE
          [] OTHER -> TRUE

\* every node has the children its kind requires
WellFormed(t) ==
    \A n \in 1..Len(t) :
        LET c == Len(Children(t, n))
        IN  CASE t[n].kind = "PropertyAccessExpression" -> c = 2
              [] t[n].kind \in {"VariableDeclaration", "Parameter", "PropertyAssignment",
                                "CallExpression"} -> c >= 1
              [] OTHER -> TRUE

NameX == <<"x">>
NameValue == <<"v","a","l","u","e">>
CalleeNames ==
    { <<"w","a","t","c","h">>, <<"u","n","r","e","f">>,
      <<"t","r","i","g","g","e","r","R","e","f">>, <<"i","s","R","e","f">>,
      <<"u","s","e","F","o","o">>, <<"U","s","e","F","o","o">>,
      <<"u","s","e","r">>, <<"u","s","e">>, <<"f","o","o">> }

\* the texts an identifier added below p can carry: only a callee's and a
\* property name's text is ever read
TextsFor(t, p, k, names) ==
    IF k # "Identifier" THEN {<<>>}
    ELSE IF t[p].kind = "CallExpression" /\ Len(Children(t, p)) = 0 THEN names
    ELSE IF t[p].kind = "PropertyAccessExpression" /\ Len(Children(t, p)) = 1
         THEN {NameX, NameValue}
    ELSE {NameX}

Node(p, k, fs, s, e, txt) ==
    [parent |-> p, kind |-> k, pos |-> fs, start |-> s, end |-> e, text |-> txt]

Roots(kinds, maxOff) ==
    { <<Node(None, k, 0, 0, maxOff, <<>>)>> : k \in kinds \ {"Identifier"} }

AddNodeOf(kinds, names, trivia, missing, maxNodes, maxOff) ==
    /\ phase = "build"
    /\ Len(tree) < maxNodes
    /\ \E p \in RightmostPath(tree) :
        \E fs \in (LastChildEnd(tree, p) + Separator(tree, p))..tree[p].end :
        \E e \in fs..tree[p].end :
        \E s \in (IF trivia THEN fs..e ELSE {fs}) :
        \E k \in kinds :
          /\ Fits(tree, p, fs, s, e)
          /\ (missing \/ s < e)
          /\ KindFits(tree, p, k)
          /\ \E txt \in TextsFor(tree, p, k, names) :
                tree' = Append(tree, Node(p, k, fs, s, e, txt))
    /\ UNCHANGED <<doc, change, typing, pos, allowDot, found, excluded, phase>>
    /\ UNCHANGED engineVars

\* the tree specifications run no invocation of the handler
NoInvocation ==
    /\ pc = "idle"
    /\ env = [languageId |-> "typescript", enabled |-> "true", program |-> FALSE,
              sourceFile |-> FALSE, token |-> FALSE, hasValue |-> FALSE]
    /\ position = [line |-> 0, character |-> 0]
    /\ cancelled = FALSE
    /\ version = 0
    /\ result = "pending"
    /\ trace = <<>>
    /\ seen = [edit |-> -1, exclusion |-> -1, locate |-> -1, type |-> -1,
               cancelAtCheck |-> "unset", cancelAtType |-> "unset"]

(***************************************************************************)
(* SpecLocate: findPositionIdentifier applied to every tree and offset.    *)
(***************************************************************************)
LocateKinds == {"Identifier", "Other"}

InitLocate ==
    /\ doc = <<>> /\ change = [start |-> [line |-> 0, character |-> 0], text |-> <<>>]
    /\ typing = "unset"
    /\ tree \in Roots(LocateKinds, MaxOff)
    /\ pos = 0 /\ allowDot = FALSE
    /\ found = "unset" /\ excluded = "unset"
    /\ phase = "build"
    /\ NoInvocation

GrowLocate == AddNodeOf(LocateKinds, {NameX}, TRUE, TRUE, MaxNodes, MaxOff)

Locate ==
    /\ phase = "build"
    /\ WellFormed(tree)
    /\ \E o \in 0..MaxOff :
          /\ pos' = o
          /\ found' = findPositionIdentifier(tree, 1, o)
    /\ phase' = "done"
    /\ UNCHANGED <<doc, change, typing, tree, allowDot, excluded>>
    /\ UNCHANGED engineVars

NextLocate == GrowLocate \/ Locate

SpecLocate == InitLocate /\ [][NextLocate]_vars

(***************************************************************************)
(* SpecExclude: isBlacklistNode applied to every tree and offset.          *)
(***************************************************************************)
ExcludeNames == { <<"w","a","t","c","h">>, <<"u","s","e","r">> }

InitExclude ==
    /\ doc = <<>> /\ change = [start |-> [line |-> 0, character |-> 0], text |-> <<>>]
    /\ typing = "unset"
    /\ tree \in Roots(Kinds, MaxExcludeOff)
    /\ pos = 0 /\ allowDot = FALSE
    /\ found = "unset" /\ excluded = "unset"
    /\ phase = "build"
    /\ NoInvocation

\* isBlacklistNode reads pos and end only, never start
GrowExclude == AddNodeOf(Kinds, ExcludeNames, FALSE, FALSE, MaxExcludeNodes, MaxExcludeOff)

Exclude ==
    /\ phase = "build"
    /\ WellFormed(tree)
    /\ \E o \in 0..MaxExcludeOff, a \in BOOLEAN :
          /\ pos' = o
          /\ allowDot' = a
          /\ excluded' = isBlacklistNode(tree, 1, o, a)
    /\ phase' = "done"
    /\ UNCHANGED <<doc, change, typing, tree, found>>
    /\ UNCHANGED engineVars

NextExclude == GrowExclude \/ Exclude

SpecExclude == InitExclude /\ [][NextExclude]_vars

(***************************************************************************)
(* SpecCall: isBlacklistNode applied to calls f(...) whose callee is a     *)
(* bare identifier.                                                        *)
(***************************************************************************)
CallKinds ==
    { "Identifier", "ArrayLiteralExpression", "CallExpression", "PropertyAccessExpression",
      "TypeReference", "Other" }

InitCall ==
    /\ doc = <<>> /\ change = [start |-> [line |-> 0, character |-> 0], text |-> <<>>]
    /\ typing = "unset"
    /\ \E name \in CalleeNames :
          tree = << Node(None, "CallExpression", 0, 0, MaxCallOff, <<>>),
                    Node(1, "Identifier", 0, 0, 1, name) >>
    /\ pos = 0 /\ allowDot = FALSE
    /\ found = "unset" /\ excluded = "unset"
    /\ phase = "build"
    /\ NoInvocation

GrowCall == AddNodeOf(CallKinds, {<<"u","s","e","F","o","o">>, <<"f","o","o">>}, FALSE,
                      FALSE, MaxCallNodes, MaxCallOff)

ExcludeCall ==
    /\ phase = "build"
    /\ WellFormed(tree)
    /\ \E o \in 0..MaxCallOff :
          /\ pos' = o
          /\ excluded' = isBlacklistNode(tree, 1, o, allowDot)
    /\ phase' = "done"
    /\ UNCHANGED <<doc, change, typing, tree, allowDot, found>>
    /\ UNCHANGED engineVars

NextCall == GrowCall \/ ExcludeCall

SpecCall == InitCall /\ [][NextCall]_vars

(***************************************************************************)
(* provideAutoInsertionEdit.  The handler is an async function with one    *)
(* await, on the configuration host; everything after it runs to the       *)
(* return without yielding.  The language service's program is shared      *)
(* with the rest of the server and is replaced when a newer edit is        *)
(* processed, which can happen only while the handler is suspended.  The   *)
(* cancellation token belongs to the host and is polled through            *)
(* isCancellationRequested(); the host may set it at any time.             *)
(***************************************************************************)
Snippet == "${1:.value}"

LanguageIds == { "javascript", "typescript", "javascriptreact", "typescriptreact", "vue" }

\* variant: the JSX language ids left out
isTsDocumentNoJsx(languageId) ==
    \/ languageId = "javascript"
    \/ languageId = "typescript"

isTsDocument(languageId) ==
    \/ languageId = "javascript"
    \/ languageId = "typescript"
    \/ languageId = "javascriptreact"
    \/ languageId = "typescriptreact"

\* the source files the program can hold for a document of at most two characters
SourceFiles ==
    { \* `n`: an expression statement holding the identifier
      << Node(None, "Other", 0, 0, 2, <<>>), Node(1, "Other", 0, 0, 1, <<>>),
         Node(2, "Identifier", 0, 0, 1, NameX) >>,
      \* `nn`: the same, one character longer
      << Node(None, "Other", 0, 0, 2, <<>>), Node(1, "Other", 0, 0, 2, <<>>),
         Node(2, "Identifier", 0, 0, 2, NameX) >>,
      \* a declaration whose name is the identifier
      << Node(None, "Other", 0, 0, 2, <<>>), Node(1, "VariableDeclaration", 0, 0, 1, <<>>),
         Node(2, "Identifier", 0, 0, 1, NameX) >>,
      \* a statement without an identifier
      << Node(None, "Other", 0, 0, 2, <<>>), Node(1, "Other", 0, 0, 1, <<>>) >> }

Documents == { <<"n">>, <<"n", "n">>, <<"n", ".">>, <<".", "n">> }

\* the edits that can have produced d: the n characters at offset o were inserted
\* (n = 0: the edit deleted text at o)
ChangesOf(d, maxLen) ==
    { [start |-> positionAt(d, c[1]), text |-> SubSeq(d, c[1] + 1, c[1] + c[2])] :
        c \in { c \in (0..Len(d)) \X (0..maxLen) : c[1] + c[2] <= Len(d) } }

\* nothing read yet: no version (-1), no token state
Unset == [edit |-> -1, exclusion |-> -1, locate |-> -1, type |-> -1,
          cancelAtCheck |-> "unset", cancelAtType |-> "unset"]

Flag(b) == IF b THEN "set" ELSE "clear"

Init ==
    /\ doc \in Documents
    /\ change \in ChangesOf(doc, 1)
    /\ position = [line |-> change.start.line,
                   character |-> change.start.character + Len(change.text)]
    /\ tree \in SourceFiles
    /\ env \in [languageId : LanguageIds, enabled : {"true", "false", "undefined"},
                program : BOOLEAN, sourceFile : BOOLEAN, token : BOOLEAN,
                hasValue : BOOLEAN]
    /\ cancelled = FALSE
    /\ version = 0
    /\ pc = "idle"
    /\ result = "pending"
    /\ trace = <<>>
    /\ seen = Unset
    /\ typing = "unset" /\ found = "unset" /\ excluded = "unset"
    /\ pos = 0 /\ allowDot = FALSE /\ phase = "engine"

Return(value) == pc' = "done" /\ result' = value

\* lines 18-24: the document filter, the edit classifier, the configuration request
Invoke ==
    /\ pc = "idle"
    /\ IF ~isTsDocument(env.languageId)
       THEN /\ Return("none")
            /\ UNCHANGED <<typing, trace, seen>>
       ELSE /\ typing' = isCharacterTyping(doc, change)
            /\ seen' = [seen EXCEPT !.edit = version]
            /\ IF ~typing'
               THEN Return("none") /\ trace' = trace \o <<"isCharacterTyping">>
               ELSE /\ pc' = "awaitConfig"
                    /\ result' = result
                    /\ trace' = trace \o <<"isCharacterTyping", "getConfiguration">>
    /\ UNCHANGED <<doc, change, tree, pos, allowDot, found, excluded, phase>>
    /\ UNCHANGED <<env, position, cancelled, version>>

\* variant: the handler yields between any two steps
SuspendedAnywhere == pc \notin {"idle", "done"}

\* the handler is suspended in its await
Suspended == pc = "awaitConfig"

\* variant: the configured value ignored
enabledAlways(configured) == TRUE

\* getConfiguration(...) ?? true
enabledOrDefault(configured) ==
    IF configured = "undefined" THEN TRUE ELSE configured = "true"

\* lines 24-26: the await resolves
ConfigResolved ==
    /\ pc = "awaitConfig"
    /\ IF ~enabledOrDefault(env.enabled) THEN Return("none")
       ELSE pc' = "program" /\ result' = result
    /\ UNCHANGED <<pureVars, env, position, cancelled, version, trace, seen>>

\* lines 28-34: the program and the document's source file
GetProgram ==
    /\ pc = "program"
    /\ IF ~env.program
       THEN Return("none") /\ trace' = trace \o <<"getProgram">>
       ELSE IF ~env.sourceFile
       THEN Return("none") /\ trace' = trace \o <<"getProgram", "getSourceFile">>
       ELSE /\ pc' = "exclusion" /\ result' = result
            /\ trace' = trace \o <<"getProgram", "getSourceFile">>
    /\ UNCHANGED <<pureVars, env, position, cancelled, version, seen>>

\* variant: the result of the exclusion classifier ignored
ExclusionGateIgnored ==
    /\ pc = "exclusion"
    /\ pos' = offsetAt(doc, position)
    /\ excluded' = isBlacklistNode(tree, 1, pos', FALSE)
    /\ trace' = trace \o <<"isBlacklistNode">>
    /\ seen' = [seen EXCEPT !.exclusion = version]
    /\ pc' = "locate" /\ result' = result
    /\ UNCHANGED <<doc, change, typing, tree, allowDot, found, phase>>
    /\ UNCHANGED <<env, position, cancelled, version>>

\* lines 36-37
ExclusionGate ==
    /\ pc = "exclusion"
    /\ pos' = offsetAt(doc, position)
    /\ excluded' = isBlacklistNode(tree, 1, pos', FALSE)
    /\ trace' = trace \o <<"isBlacklistNode">>
    /\ seen' = [seen EXCEPT !.exclusion = version]
    /\ IF excluded' THEN Return("none") ELSE pc' = "locate" /\ result' = result
    /\ UNCHANGED <<doc, change, typing, tree, allowDot, found, phase>>
    /\ UNCHANGED <<env, position, cancelled, version>>

\* lines 39-41
LocateGate ==
    /\ pc = "locate"
    /\ found' = findPositionIdentifier(tree, 1, offsetAt(doc, position))
    /\ trace' = trace \o <<"findPositionIdentifier">>
    /\ seen' = [seen EXCEPT !.locate = version]
    /\ IF found' = None THEN Return("none") ELSE pc' = "cancel" /\ result' = result
    /\ UNCHANGED <<doc, change, typing, tree, pos, allowDot, excluded, phase>>
    /\ UNCHANGED <<env, position, cancelled, version>>

\* variant: the token never polled
neverCancelled(isCancellationRequested) == FALSE

\* token?.isCancellationRequested()
cancellationRequested(isCancellationRequested) == isCancellationRequested

\* lines 43-49: with a token, quick info is computed and the token polled once
CancelGate ==
    /\ pc = "cancel"
    /\ IF env.token
       THEN /\ trace' = trace \o <<"getQuickInfoAtPosition", "isCancellationRequested">>
            /\ seen' = [seen EXCEPT !.cancelAtCheck = Flag(cancelled)]
            /\ IF cancellationRequested(cancelled) THEN Return("none")
               ELSE pc' = "type" /\ result' = result
       ELSE /\ pc' = "type" /\ result' = result
            /\ UNCHANGED <<trace, seen>>
    /\ UNCHANGED <<pureVars, env, position, cancelled, version>>

\* lines 51-57: the type at the node and its properties
TypeGate ==
    /\ pc = "type"
    /\ trace' = trace \o <<"getTypeAtLocation">>
    /\ seen' = [seen EXCEPT !.type = version, !.cancelAtType = Flag(cancelled)]
    /\ IF env.hasValue THEN Return(Snippet) ELSE Return("none")
    /\ UNCHANGED <<pureVars, env, position, cancelled, version>>

\* the host signals cancellation of the request
Cancel ==
    /\ pc # "done"
    /\ env.token
    /\ ~cancelled
    /\ cancelled' = TRUE
    /\ UNCHANGED <<pureVars, pc, env, position, version, result, trace, seen>>

\* a newer edit is processed: the language service holds a new program
NewerEdit ==
    /\ Suspended
    /\ version < MaxEdits
    /\ version' = version + 1
    /\ \E t \in SourceFiles : t # tree /\ tree' = t
    /\ UNCHANGED <<doc, change, typing, pos, allowDot, found, excluded, phase>>
    /\ UNCHANGED <<pc, env, position, cancelled, result, trace, seen>>

Next ==
    \/ Invoke
    \/ ConfigResolved
    \/ GetProgram
    \/ ExclusionGate
    \/ LocateGate
    \/ CancelGate
    \/ TypeGate
    \/ Cancel
    \/ NewerEdit

Spec == Init /\ [][Next]_vars

(***************************************************************************)
(* SpecTyping: isCharacterTyping applied to every document and every edit  *)
(* that can have produced it.                                              *)
(***************************************************************************)
InitTyping ==
    /\ doc \in SeqsUpTo(Alphabet, MaxDocLen)
    /\ change \in ChangesOf(doc, MaxTextLen)
    /\ typing = "unset"
    /\ tree = <<Node(None, "Other", 0, 0, 0, <<>>)>>
    /\ pos = 0 /\ allowDot = FALSE
    /\ found = "unset" /\ excluded = "unset"
    /\ phase = "input"
    /\ NoInvocation

ClassifyEdit ==
    /\ phase = "input"
    /\ typing' = isCharacterTyping(doc, change)
    /\ phase' = "done"
    /\ UNCHANGED <<doc, change, tree, pos, allowDot, found, excluded>>
    /\ UNCHANGED engineVars

NextTyping == ClassifyEdit

SpecTyping == InitTyping /\ [][NextTyping]_vars

\* the offset of the caret: the start of the edit plus the inserted length
CaretOffset == offsetAt(doc, change.start) + Len(change.text)

HasLineBreak(text) == \E i \in 1..Len(text) : text[i] = "\n"

\* C4: false for an empty insertion and for one with a line break; otherwise
\* true exactly when the last inserted character is a word character and the
\* document character at the caret is not one (no character there counts as
\* not a word character).
C4_CharacterTyping ==
    phase = "done" =>
        typing =
            IF change.text = <<>> \/ HasLineBreak(change.text) THEN FALSE
            ELSE /\ change.text[Len(change.text)] \in WordChars
                 /\ ~(CaretOffset < Len(doc) /\ doc[CaretOffset + 1] \in WordChars)

\* a word character typed in the middle of a line, before a non-word character
C4_Witness ==
    /\ phase = "done" /\ typing = TRUE
    /\ CaretOffset < Len(doc)
    /\ change.start.character > 0

(***************************************************************************)
(* Properties of findPositionIdentifier (SpecLocate).                      *)
(***************************************************************************)
\* the identifiers below the root that end exactly at o
IdentifiersEndingAt(t, o) ==
    { n \in 2..Len(t) : t[n].kind = "Identifier" /\ t[n].end = o }

\* C5 as stated: none when no identifier of the tree ends at the offset, and
\* otherwise an identifier that ends at the offset.
C5_AsStated ==
    phase = "done" =>
        IF IdentifiersEndingAt(tree, pos) = {}
        THEN found = None
        ELSE found \in IdentifiersEndingAt(tree, pos)

\* C5 (amended): the result is none or an identifier ending at the offset; it is
\* none when no identifier ends there, and it is an identifier ending there
\* whenever some identifier of non-zero width ends there.
C5_Locate ==
    phase = "done" =>
        /\ found # None => found \in IdentifiersEndingAt(tree, pos)
        /\ IdentifiersEndingAt(tree, pos) = {} => found = None
        /\ (\E n \in IdentifiersEndingAt(tree, pos) : tree[n].start < tree[n].end)
              => found \in IdentifiersEndingAt(tree, pos)

\* an identifier was found below a child of the root, with an earlier sibling
\* of its parent skipped
C5_Witness ==
    /\ phase = "done"
    /\ found # None
    /\ tree[found].parent # 1
    /\ tree[found].start < tree[found].end
    /\ \E n \in 2..Len(tree) : n < tree[found].parent /\ tree[n].parent = 1

(***************************************************************************)
(* Properties of isBlacklistNode (SpecExclude, SpecCall).                  *)
(***************************************************************************)
\* the nodes on the way from n down to p: n, then children whose span contains p
RECURSIVE PathNodes(_, _, _)
PathNodes(t, n, p) ==
    {n} \cup UNION { PathNodes(t, c, p) :
                       c \in { c \in 1..Len(t) : t[c].parent = n /\ t[c].pos <= p /\ p <= t[c].end } }

ChildSet(t, n) == { c \in 1..Len(t) : t[c].parent = n }
FirstChild(t, n) == CHOOSE c \in ChildSet(t, n) : \A d \in ChildSet(t, n) : c <= d
SecondChild(t, n) ==
    CHOOSE c \in ChildSet(t, n) \ {FirstChild(t, n)} :
        \A d \in ChildSet(t, n) \ {FirstChild(t, n)} : c <= d
Spans(t, n, p) == t[n].pos <= p /\ p <= t[n].end

\* a name whose hyphen-cased form starts with `use-`: use, then a capital
UsePrefixed(name) ==
    /\ Len(name) >= 4
    /\ name[1] \in {"u", "U"} /\ name[2] = "s" /\ name[3] = "e"
    /\ name[4] \in UpperChars

WatcherName(name) ==
    \/ name \in { <<"w","a","t","c","h">>, <<"u","n","r","e","f">>,
                  <<"t","r","i","g","g","e","r","R","e","f">>, <<"i","s","R","e","f">> }
    \/ UsePrefixed(name)

WatcherCall(t, n) ==
    /\ t[n].kind = "CallExpression"
    /\ t[FirstChild(t, n)].kind = "Identifier"
    /\ WatcherName(t[FirstChild(t, n)].text)

ArgumentSet(t, n) == ChildSet(t, n) \ {FirstChild(t, n)}

\* p within a top-level argument that is a bare identifier, or within an
\* element, itself a bare identifier, of a top-level array-literal argument
BareArgumentAt(t, n, p) ==
    \E a \in ArgumentSet(t, n) :
        /\ Spans(t, a, p)
        /\ \/ t[a].kind = "Identifier"
           \/ /\ t[a].kind = "ArrayLiteralExpression"
              /\ \E el \in ChildSet(t, a) : Spans(t, el, p) /\ t[el].kind = "Identifier"

\* the rule table
RuleMatches(t, n, p) ==
    \/ /\ t[n].kind \in {"VariableDeclaration", "Parameter", "PropertyAssignment"}
       /\ Spans(t, FirstChild(t, n), p)
    \/ /\ t[n].kind = "FunctionDeclaration"
       /\ ChildSet(t, n) # {}
       /\ t[FirstChild(t, n)].kind = "Identifier"
       /\ Spans(t, FirstChild(t, n), p)
    \/ t[n].kind \in {"ShorthandPropertyAssignment", "ImportDeclaration",
                      "LiteralType", "TypeReference"}
    \/ /\ t[n].kind = "PropertyAccessExpression"
       /\ t[SecondChild(t, n)].text = <<"v","a","l","u","e">>
       /\ t[FirstChild(t, n)].end = p
    \/ WatcherCall(t, n) /\ BareArgumentAt(t, n, p)

ExcludedOnPath(t, n, p) == \E m \in PathNodes(t, n, p) : RuleMatches(t, m, p)

RECURSIVE FirstContaining(_, _, _)
FirstContaining(t, n, p) ==
    LET inside == { c \in ChildSet(t, n) : Spans(t, c, p) }
    IN  IF inside = {} THEN None ELSE CHOOSE c \in inside : \A d \in inside : c <= d

RECURSIVE ExcludedFirstChild(_, _, _, _)
ExcludedFirstChild(t, n, p, allow) ==
    \/ RuleMatches(t, n, p) /\ ~(allow /\ t[n].kind = "PropertyAccessExpression")
    \/ /\ FirstContaining(t, n, p) # None
       /\ ExcludedFirstChild(t, FirstContaining(t, n, p), p, allow)

\* no two children of a node on the descent both contain p
UniqueContainment(t, p) ==
    \A n \in PathNodes(t, 1, p) :
        Cardinality({ c \in ChildSet(t, n) : Spans(t, c, p) }) <= 1

\* C8 as stated: for ordered, non-overlapping siblings the result equals that of
\* the classifier that descends only into the first containing child.
C8_AsStated ==
    phase = "done" => excluded = ExcludedFirstChild(tree, 1, pos, allowDot)

\* C8 (amended): the two classifiers agree whenever at most one child's span
\* contains the position at every node visited; where two adjacent siblings
\* both contain it the code goes on to the later sibling.
C8_FirstChild ==
    (phase = "done" /\ UniqueContainment(tree, pos)) =>
        excluded = ExcludedFirstChild(tree, 1, pos, allowDot)

\* the only child containing the position is a later sibling, and the descent
\* into it excludes the position
C8_Witness ==
    /\ phase = "done" /\ excluded /\ UniqueContainment(tree, pos)
    /\ ~RuleMatches(tree, 1, pos)
    /\ FirstContaining(tree, 1, pos) # None
    /\ FirstContaining(tree, 1, pos) # FirstChild(tree, 1)
    /\ ExcludedFirstChild(tree, FirstContaining(tree, 1, pos), pos, allowDot)

Ran(step) == \E i \in 1..Len(trace) : trace[i] = step
IndexOf(step) == CHOOSE i \in 1..Len(trace) : trace[i] = step
Before(a, b) == Ran(a) /\ Ran(b) /\ IndexOf(a) < IndexOf(b)
Times(step) == Cardinality({ i \in 1..Len(trace) : trace[i] = step })

\* the edit is character typing, as C4 describes it
TypingEdit ==
    /\ change.text # <<>>
    /\ ~HasLineBreak(change.text)
    /\ change.text[Len(change.text)] \in WordChars
    /\ ~(CaretOffset < Len(doc) /\ doc[CaretOffset + 1] \in WordChars)

\* C1: the invocation resolves to the `.value` snippet exactly when the document
\* is a JS/TS document, the edit is character typing, the toggle is not
\* disabled, the program and the source file exist, the position is not
\* excluded, an identifier ends at the offset, no cancellation is observed and
\* the identifier's type has a property `value`; otherwise it resolves to none.
C1_Decision ==
    pc = "done" =>
        /\ result \in {Snippet, "none"}
        /\ result = Snippet <=>
              /\ env.languageId \in {"javascript", "typescript", "javascriptreact",
                                     "typescriptreact"}
              /\ TypingEdit
              /\ env.enabled # "false"
              /\ env.program /\ env.sourceFile
              /\ ~ExcludedOnPath(tree, 1, CaretOffset)
              /\ IdentifiersEndingAt(tree, CaretOffset) # {}
              /\ seen.cancelAtCheck # "set"
              /\ env.hasValue

\* a suggestion made from the program of a newer edit
C1_Witness == pc = "done" /\ result = Snippet /\ version = 1

\* C2 as stated: with the toggle disabled the result is none and no analysis
\* step has run, the edit classification included.
C2_AsStated ==
    (pc = "done" /\ env.enabled = "false") => (result = "none" /\ trace = <<>>)

\* C2 (amended): with the toggle disabled the result is none and neither the
\* syntax-tree lookup, the exclusion classifier, the locator nor the type query
\* has run; the edit classification runs before the toggle is read.
C2_Disabled ==
    env.enabled = "false" =>
        /\ pc = "done" => result = "none"
        /\ \A i \in 1..Len(trace) : trace[i] \in {"isCharacterTyping", "getConfiguration"}

\* the toggle was read and found disabled
C2_Witness == pc = "done" /\ env.enabled = "false" /\ Ran("getConfiguration")

\* C3 as stated: the type query never runs once the signal is set.
C3_AsStated == seen.cancelAtType # "set"

\* C3 (amended): when the signal is set by the time the token is polled, after
\* the identifier is located, the invocation resolves to none and the type
\* query does not run; a signal set after the poll is not observed.
C3_Cancelled ==
    /\ seen.cancelAtCheck = "set" =>
          (pc = "done" /\ result = "none" /\ ~Ran("getTypeAtLocation"))
    /\ (env.token /\ pc = "type") => seen.cancelAtCheck = "clear"

\* cancelled although the type has the property
C3_Witness == seen.cancelAtCheck = "set" /\ env.hasValue /\ pc = "done"

\* C9 as stated: the identifier is located before the exclusion classifier runs.
C9_AsStated ==
    Ran("isBlacklistNode") => Before("findPositionIdentifier", "isBlacklistNode")

\* C9 (amended): the gates run in the order edit classification, exclusion
\* classifier, locator, type query; a gate runs only if every earlier gate
\* passed, and an excluded position ends the invocation before the locator runs.
C9_GateOrder ==
    /\ Ran("isBlacklistNode") =>
          (Before("isCharacterTyping", "isBlacklistNode") /\ typing)
    /\ Ran("findPositionIdentifier") =>
          (Before("isBlacklistNode", "findPositionIdentifier") /\ ~excluded)
    /\ Ran("getTypeAtLocation") =>
          (Before("findPositionIdentifier", "getTypeAtLocation") /\ found # None)
    /\ (Ran("isBlacklistNode") /\ excluded) =>
          (pc = "done" /\ result = "none" /\ ~Ran("findPositionIdentifier"))

\* an excluded position: the invocation ended without locating the identifier
C9_Witness == pc = "done" /\ Ran("isBlacklistNode") /\ excluded

\* C10 as stated: no suspension between the edit classification and the type
\* query, so the exclusion and locate steps read the program the edit
\* classification saw.
C10_AsStated ==
    /\ seen.exclusion # -1 => seen.exclusion = seen.edit
    /\ seen.locate # -1 => seen.locate = seen.edit

\* C10 (amended): the handler suspends only in the configuration request,
\* between the edit classification and the program lookup; from the program
\* lookup to the result nothing interleaves, so the exclusion classifier, the
\* locator and the type query read one program, and the token is polled at
\* most once.
C10_Suspension ==
    /\ seen.locate # -1 => seen.locate = seen.exclusion
    /\ seen.type # -1 => seen.type = seen.exclusion
    /\ version # 0 => Ran("getConfiguration")
    /\ Times("isCancellationRequested") <= 1

\* a newer edit arrived during the suspension and the type query ran
C10_Witness == seen.type = 1 /\ seen.edit = 0

====
